---- MODULE Spec2Model ----
(***************************************************************************)
(* Model of SoundMapping/SoundMappingUnity/plot_traj_1.py: a script that   *)
(* loads one recorded swarm trajectory file, aggregates the swarm centroid *)
(* per time bin or frame index, measures the centroid's distance to a      *)
(* fixed reference polyline and writes two plots.                          *)
(*                                                                         *)
(* The script computes in IEEE-754 binary64 (Python float, numpy float64). *)
(* The model computes the same values bit for bit: a float is a sign, a    *)
(* 53-bit significand and an exponent, and every arithmetic operation is   *)
(* rounded to nearest, ties to even.  Significands do not fit the 32-bit   *)
(* integers of TLC, so they are kept as little-endian sequences of         *)
(* 15-bit limbs.                                                           *)
(***************************************************************************)
EXTENDS Integers, Sequences, FiniteSets, TLC

(***************************************************************************)
(* Natural numbers of arbitrary size: little-endian limbs, no leading zero *)
(* limb, <<>> is zero.                                                     *)
(***************************************************************************)
LimbBits == 15
Base == 2^LimbBits

Limb(a, i) == IF i >= 1 /\ i <= Len(a) THEN a[i] ELSE 0

RECURSIVE BStrip(_)
BStrip(a) ==
  IF Len(a) > 0 /\ a[Len(a)] = 0 THEN BStrip(SubSeq(a, 1, Len(a) - 1)) ELSE a

RECURSIVE BFromNat(_)
BFromNat(n) == IF n = 0 THEN <<>> ELSE <<n % Base>> \o BFromNat(n \div Base)

RECURSIVE IntBitLen(_)
IntBitLen(n) == IF n = 0 THEN 0 ELSE 1 + IntBitLen(n \div 2)

BBitLen(a) ==
  IF a = <<>> THEN 0 ELSE LimbBits * (Len(a) - 1) + IntBitLen(a[Len(a)])

BIsOdd(a) == a # <<>> /\ a[1] % 2 = 1

RECURSIVE BCmpFrom(_, _, _)
BCmpFrom(a, b, i) ==
  IF i = 0 THEN 0
  ELSE IF a[i] # b[i] THEN (IF a[i] < b[i] THEN -1 ELSE 1)
  ELSE BCmpFrom(a, b, i - 1)

BCmp(a, b) ==
  IF Len(a) # Len(b) THEN (IF Len(a) < Len(b) THEN -1 ELSE 1)
  ELSE BCmpFrom(a, b, Len(a))

RECURSIVE BAddFrom(_, _, _, _, _)
BAddFrom(a, b, i, c, acc) ==
  IF i > Len(a) /\ i > Len(b)
  THEN IF c = 0 THEN acc ELSE Append(acc, c)
  ELSE LET s == Limb(a, i) + Limb(b, i) + c
       IN  BAddFrom(a, b, i + 1, s \div Base, Append(acc, s % Base))

BAdd(a, b) == BAddFrom(a, b, 1, 0, <<>>)

\* a - b for a >= b
RECURSIVE BSubFrom(_, _, _, _, _)
BSubFrom(a, b, i, br, acc) ==
  IF i > Len(a) THEN acc
  ELSE LET s == a[i] - Limb(b, i) - br
       IN  BSubFrom(a, b, i + 1, IF s < 0 THEN 1 ELSE 0,
                    Append(acc, IF s < 0 THEN s + Base ELSE s))

BSub(a, b) == BStrip(BSubFrom(a, b, 1, 0, <<>>))

\* a * 2^r for 0 <= r < LimbBits
BShlBits(a, r) ==
  IF r = 0 THEN a
  ELSE BStrip([i \in 1..(Len(a) + 1) |->
                 (Limb(a, i) % 2^(LimbBits - r)) * 2^r
                   + (Limb(a, i - 1) \div 2^(LimbBits - r))])

\* a * 2^k
BShl(a, k) ==
  IF a = <<>> THEN a
  ELSE [i \in 1..(k \div LimbBits) |-> 0] \o BShlBits(a, k % LimbBits)

\* floor(d / 2^r) for 0 <= r < LimbBits
BShrBits(d, r) ==
  IF r = 0 THEN d
  ELSE BStrip([i \in 1..Len(d) |->
                 (d[i] \div 2^r) + (Limb(d, i + 1) % 2^r) * 2^(LimbBits - r)])

\* floor(a / 2^k)
BShr(a, k) ==
  BShrBits(IF k \div LimbBits >= Len(a) THEN <<>>
           ELSE SubSeq(a, k \div LimbBits + 1, Len(a)),
           k % LimbBits)

\* a mod 2^k
BLow(a, k) ==
  IF Len(a) <= k \div LimbBits THEN a
  ELSE BStrip(SubSeq(a, 1, k \div LimbBits)
                \o <<a[k \div LimbBits + 1] % 2^(k % LimbBits)>>)

RECURSIVE BMulSmallFrom(_, _, _, _, _)
BMulSmallFrom(a, d, i, c, acc) ==
  IF i > Len(a) THEN IF c = 0 THEN acc ELSE Append(acc, c)
  ELSE BMulSmallFrom(a, d, i + 1, (a[i] * d + c) \div Base,
                     Append(acc, (a[i] * d + c) % Base))

\* a * d for one limb d
BMulSmall(a, d) == IF d = 0 THEN <<>> ELSE BMulSmallFrom(a, d, 1, 0, <<>>)

\* row * Base^(j-1)
BMulRow(row, j) == IF row = <<>> THEN row ELSE [i \in 1..(j - 1) |-> 0] \o row

RECURSIVE BMulFrom(_, _, _, _)
BMulFrom(a, b, j, acc) ==
  IF j > Len(b) THEN acc
  ELSE BMulFrom(a, b, j + 1, BAdd(acc, BMulRow(BMulSmall(a, b[j]), j)))

BMul(a, b) == BMulFrom(a, b, 1, <<>>)

\* the quotient limb q, one less if d * q exceeds r
BDivLower(r, d, q) == IF BCmp(BMulSmall(d, q), r) > 0 THEN q - 1 ELSE q

\* the quotient limb from its estimate est, which is at most 2 too large
\* and 0 only if r < d
BDivEstimate(r, d, est) ==
  IF est = 0 THEN 0
  ELSE BDivLower(r, d, BDivLower(r, d, IF est >= Base THEN Base - 1 ELSE est))

\* One quotient limb of long division: floor(r / d) for r < d * Base and a
\* divisor d whose top limb is at least Base / 2, estimated from the leading
\* limbs.
BDivDigit(r, d) ==
  BDivEstimate(r, d, (Limb(r, Len(d) + 1) * Base + Limb(r, Len(d))) \div d[Len(d)])

\* Long division, st = [r, q, i]: partial remainder, quotient limbs so far,
\* index of the dividend limb to bring down next.  r1 is the remainder with
\* the next limb brought down, qd its quotient limb.
BDivTake(st, r1, d, qd) ==
  [r |-> IF qd = 0 THEN r1 ELSE BSub(r1, BMulSmall(d, qd)),
   q |-> <<qd>> \o st.q, i |-> st.i - 1]

BDivBring(st, r1, d) == BDivTake(st, r1, d, BDivDigit(r1, d))

BDivStep(st, N, d) == BDivBring(st, BStrip(<<N[st.i]>> \o st.r), d)

RECURSIVE BDivLoop(_, _, _)
BDivLoop(st, N, d) ==
  IF st.i = 0 THEN st ELSE BDivLoop(BDivStep(st, N, d), N, d)

\* Division by a single limb d, st = [r, q, i] with the remainder r a number
\* below d
BDivSmallStep(st, N, d) ==
  [r |-> (st.r * Base + N[st.i]) % d,
   q |-> <<(st.r * Base + N[st.i]) \div d>> \o st.q, i |-> st.i - 1]

RECURSIVE BDivSmallLoop(_, _, _)
BDivSmallLoop(st, N, d) ==
  IF st.i = 0 THEN st ELSE BDivSmallLoop(BDivSmallStep(st, N, d), N, d)

BDivSmallResult(st) == [q |-> BStrip(st.q), exact |-> st.r = 0]
BDivResult(st) == [q |-> BStrip(st.q), exact |-> st.r = <<>>]

\* N / D with the top limb of D at least Base / 2
BDivNormal(N, D) ==
  BDivResult(BDivLoop([r |-> <<>>, q |-> <<>>, i |-> Len(N)], N, D))

\* [q |-> floor(N / D), exact |-> whether D divides N], for D > 0
BDivMod(N, D) ==
  IF Len(D) = 1
  THEN BDivSmallResult(BDivSmallLoop([r |-> 0, q |-> <<>>, i |-> Len(N)], N, D[1]))
  ELSE BDivNormal(BShl(N, LimbBits - IntBitLen(D[Len(D)])),
                  BShl(D, LimbBits - IntBitLen(D[Len(D)])))

\* floor(sqrt(n)) for 0 < n < 2^30, by Newton's iteration from x >= sqrt(n);
\* y is the iterate after x
RECURSIVE IntIsqrtFrom(_, _)
IntIsqrtNext(x, n, y) == IF y >= x THEN x ELSE IntIsqrtFrom(y, n)
IntIsqrtFrom(x, n) == IntIsqrtNext(x, n, (x + n \div x) \div 2)

\* floor(sqrt(M)) by Newton's iteration from a start x >= floor(sqrt(M))
RECURSIVE BIsqrtFrom(_, _)
BIsqrtNext(x, M, y) == IF BCmp(y, x) >= 0 THEN x ELSE BIsqrtFrom(y, M)
BIsqrtFrom(x, M) == BIsqrtNext(x, M, BShr(BAdd(x, BDivMod(M, x).q), 1))

\* the number of low bits of an L-bit number to drop, an even number, to
\* keep its leading 29 or 30 bits
BIsqrtShift(L) == IF L <= 2 * LimbBits THEN 0 ELSE L - 2 * LimbBits + (L % 2)

\* the root of the leading bits top of a number, rounded up and scaled back
BIsqrtStart(top, sh) ==
  BShl(BFromNat(IntIsqrtFrom(Base, Limb(top, 1) + Limb(top, 2) * Base) + 1), sh \div 2)

BIsqrtScaled(M, sh) == BIsqrtFrom(BIsqrtStart(BShr(M, sh), sh), M)

\* floor(sqrt(M))
BIsqrt(M) == IF M = <<>> THEN M ELSE BIsqrtScaled(M, BIsqrtShift(BBitLen(M)))

(***************************************************************************)
(* binary64 values.  A finite value is (-1)^s * m * 2^e with m = <<>>      *)
(* (zero) or m odd and below 2^53, so equal values have equal records.     *)
(* The inputs of the model stay far inside the exponent range, so no       *)
(* operation overflows or produces a subnormal.                            *)
(***************************************************************************)
MantBits == 53

FZero == [inf |-> FALSE, s |-> 0, m |-> <<>>, e |-> 0]
FInf  == [inf |-> TRUE,  s |-> 0, m |-> <<>>, e |-> 0]

FIsZero(x) == ~x.inf /\ x.m = <<>>

IMin(m, n) == IF m < n THEN m ELSE n
IMax(m, n) == IF m < n THEN n ELSE m

RECURSIVE IntTrailingZeros(_)
IntTrailingZeros(n) == IF n % 2 = 1 THEN 0 ELSE 1 + IntTrailingZeros(n \div 2)

\* number of trailing zero bits of a > 0
RECURSIVE BTrailingZeros(_, _)
BTrailingZeros(a, i) ==
  IF a[i] = 0 THEN LimbBits + BTrailingZeros(a, i + 1) ELSE IntTrailingZeros(a[i])

\* the record of (-1)^s * M * 2^E for M with z trailing zero bits
FShifted(s, M, E, z) == [inf |-> FALSE, s |-> s, m |-> BShr(M, z), e |-> E + z]

\* the record of (-1)^s * M * 2^E for 0 < M < 2^53
FCanon(s, M, E) == FShifted(s, M, E, BTrailingZeros(M, 1))

\* q * 2^E, one more in the last place when the dropped bits are above
\* half (c > 0), or at half (c = 0) with a sticky fraction or q odd
FRoundCut(s, q, c, E, sticky) ==
  FCanon(s, IF c > 0 \/ (c = 0 /\ (sticky \/ BIsOdd(q))) THEN BAdd(q, <<1>>) ELSE q, E)

\* M with its sh low bits dropped
FRoundBy(s, M, E, sticky, sh) ==
  FRoundCut(s, BShr(M, sh), BCmp(BLow(M, sh), BShl(<<1>>, sh - 1)), E + sh, sticky)

\* M of L bits
FRoundLen(s, M, E, sticky, L) ==
  IF L = 0 THEN FZero
  ELSE IF L <= MantBits THEN FCanon(s, M, E)
  ELSE FRoundBy(s, M, E, sticky, L - MantBits)

\* round (-1)^s * M * 2^E (plus a positive fraction of 2^E when sticky)
\* to nearest, ties to even
FRound(s, M, E, sticky) == FRoundLen(s, M, E, sticky, BBitLen(M))

\* float(n) for an integer n
FromInt(n) ==
  IF n = 0 THEN FZero
  ELSE FCanon(IF n < 0 THEN 1 ELSE 0, BFromNat(IF n < 0 THEN -n ELSE n), 0)

FNeg(x) == IF FIsZero(x) THEN x ELSE [x EXCEPT !.s = 1 - @]

\* the significands of x and y at the common exponent e0 compared
FCmpAligned(x, y, e0) == BCmp(BShl(x.m, x.e - e0), BShl(y.m, y.e - e0))

\* tx and ty: the positions of the leading bits of x and y
FCmpTops(x, y, tx, ty) ==
  IF tx # ty THEN (IF tx < ty THEN -1 ELSE 1)
  ELSE FCmpAligned(x, y, IMin(x.e, y.e))

\* -1, 0, 1 as |x| is below, equal to, above |y|, for finite nonzero x, y
FCmpAbs(x, y) == FCmpTops(x, y, x.e + BBitLen(x.m), y.e + BBitLen(y.m))

\* X and Y: the significands at the common exponent e0; c compares them
FAddCompared(x, y, X, Y, e0, c) ==
  IF x.s = y.s THEN FRound(x.s, BAdd(X, Y), e0, FALSE)
  ELSE IF c = 0 THEN FZero
  ELSE IF c > 0 THEN FRound(x.s, BSub(X, Y), e0, FALSE)
  ELSE FRound(y.s, BSub(Y, X), e0, FALSE)

FAddAligned(x, y, X, Y, e0) == FAddCompared(x, y, X, Y, e0, BCmp(X, Y))

FAddAt(x, y, e0) == FAddAligned(x, y, BShl(x.m, x.e - e0), BShl(y.m, y.e - e0), e0)

FAdd(x, y) ==
  IF x.inf \/ y.inf THEN (IF x.inf THEN x ELSE y)
  ELSE IF FIsZero(x) THEN y
  ELSE IF FIsZero(y) THEN x
  ELSE FAddAt(x, y, IMin(x.e, y.e))

FSub(x, y) == FAdd(x, FNeg(y))

FMul(x, y) ==
  IF FIsZero(x) \/ FIsZero(y) THEN FZero
  ELSE FRound((x.s + y.s) % 2, BMul(x.m, y.m), x.e + y.e, FALSE)

\* d: the quotient of the significands, that of x scaled by 2^k
FDivQuot(x, y, k, d) == FRound((x.s + y.s) % 2, d.q, x.e - y.e - k, ~d.exact)

FDivBy(x, y, k) == FDivQuot(x, y, k, BDivMod(BShl(x.m, k), y.m))

\* x / y for finite x and finite nonzero y: the quotient of the
\* significands to at least 55 bits, then rounded
FDiv(x, y) ==
  IF FIsZero(x) THEN FZero
  ELSE FDivBy(x, y, MantBits + 3 + BBitLen(y.m) - BBitLen(x.m))

\* r: the integer root of M, the significand of x scaled by 2^j
FSqrtRoot(x, j, M, r) == FRound(0, r, (x.e - j) \div 2, BMul(r, r) # M)

FSqrtOf(x, j, M) == FSqrtRoot(x, j, M, BIsqrt(M))

FSqrtBy(x, j) == FSqrtOf(x, j, BShl(x.m, j))

\* math.sqrt(x) for x >= 0: the integer root of the significand scaled to
\* at least 109 bits and an even exponent, then rounded
FSqrt(x) ==
  IF x.inf \/ FIsZero(x) THEN x
  ELSE FSqrtBy(x, 2 * MantBits + 4 - BBitLen(x.m) + ((x.e + BBitLen(x.m)) % 2))

\* x < y
FLt(x, y) ==
  IF x.inf THEN FALSE
  ELSE IF y.inf THEN TRUE
  ELSE IF FIsZero(x) THEN (~FIsZero(y) /\ y.s = 0)
  ELSE IF FIsZero(y) THEN x.s = 1
  ELSE IF x.s # y.s THEN x.s = 1
  ELSE IF x.s = 0 THEN FCmpAbs(x, y) < 0
  ELSE FCmpAbs(x, y) > 0

FLe(x, y) == x = y \/ FLt(x, y)

\* Python's built-in min(a, b) and max(a, b)
PyMin(a, b) == IF FLt(b, a) THEN b ELSE a
PyMax(a, b) == IF FLt(a, b) THEN b ELSE a

(***************************************************************************)
(* Geometry helpers.  A point is a pair <<x, z>> of floats, a polyline a   *)
(* sequence of points.                                                     *)
(***************************************************************************)
\* v ** 2 (lines 77 and 81): the C library's pow, which returns the correctly
\* rounded square v * v for every value that occurs in this model
FSquare(x) == FMul(x, x)

Dist2(p, q) == FAdd(FSquare(FSub(p[1], q[1])), FSquare(FSub(p[2], q[2])))

FDot(u, v) == FAdd(FMul(u[1], v[1]), FMul(u[2], v[2]))

\* no clamp: the projection onto the infinite line
ClampNone(t) == t

\* the clamp of line 79: max(0.0, min(1.0, t))
ClampUnit(t) == PyMax(FZero, PyMin(FromInt(1), t))

\* lines 77 and 81-82: the point q and its squared distance from p
PointAndDist2(p, q) == [q |-> q, d2 |-> Dist2(p, q)]

\* line 80, for the clamped t
PointAt(a, ab, t) == <<FAdd(a[1], FMul(t, ab[1])), FAdd(a[2], FMul(t, ab[2]))>>

\* lines 76-82, for ap = p - a, ab = b - a and ab2 = ab . ab
SegmentCase(p, a, ap, ab, ab2) ==
  IF FIsZero(ab2) THEN PointAndDist2(p, a)
  ELSE PointAndDist2(p, PointAt(a, ab, ClampUnit(FDiv(FDot(ap, ab), ab2))))

\* lines 75-82
SegmentVectors(p, a, ap, ab) == SegmentCase(p, a, ap, ab, FDot(ab, ab))

closest_point_on_segment(p, a, b) ==
  SegmentVectors(p, a, <<FSub(p[1], a[1]), FSub(p[2], a[2])>>,
                       <<FSub(b[1], a[1]), FSub(b[2], a[2])>>)

\* lines 88-89
BestOf(d2, best_d2) == IF FLt(d2, best_d2) THEN d2 ELSE best_d2

\* the loop of lines 86-89 from segment i on, best_d2 so far
RECURSIVE BestD2From(_, _, _, _)
BestD2From(p, poly, i, best_d2) ==
  IF i > Len(poly) - 1 THEN best_d2
  ELSE BestD2From(p, poly, i + 1,
                  BestOf(closest_point_on_segment(p, poly[i], poly[i + 1]).d2, best_d2))

dist_point_to_polyline(p, poly) == FSqrt(BestD2From(p, poly, 1, FInf))

Pt(x, z) == <<FromInt(x), FromInt(z)>>

Reverse(poly) == [i \in 1..Len(poly) |-> poly[Len(poly) + 1 - i]]

(***************************************************************************)
(* Script constants (lines 7-14).                                          *)
(***************************************************************************)
\* the float 0.3: the double nearest to 3/10
REF_SCALE == FDiv(FromInt(3), FromInt(10))

REF_STEPS ==
  << <<0, 140>>, <<-140, 0>>, <<0, 100>>, <<100, 0>>,
     <<0, 160>>, <<-100, 0>>, <<0, 100>>, <<-140, 0>>,
     <<0, -160>>, <<-200, 0>>, <<0, 100>>, <<100, 0>> >>

OUT_TRAJ_PNG == "outputs/one_script_trajectories.png"
OUT_ERR_PNG  == "outputs/one_script_centroid_error.png"

(***************************************************************************)
(* Optional values: None is <<>>, a present value v is <<v>>.  A float     *)
(* array element built from None (numpy's nan) is None as well.            *)
(***************************************************************************)
None == <<>>
Some(v) == <<v>>

\* the concatenation of the sequences ss[1], ss[2], ...
RECURSIVE Concat(_)
Concat(ss) == IF ss = <<>> THEN <<>> ELSE Head(ss) \o Concat(Tail(ss))

\* sorted in descending order
RECURSIVE SortedDescending(_)
SortedDescending(S) ==
  IF S = {} THEN <<>>
  ELSE LET hi == CHOOSE x \in S : \A y \in S : x >= y
       IN  <<hi>> \o SortedDescending(S \ {hi})

\* sorted(S) for a finite set S of integers; lo is its least element
RECURSIVE Sorted(_)
SortedFrom(S, lo) == <<lo>> \o Sorted(S \ {lo})
Sorted(S) ==
  IF S = {} THEN <<>> ELSE SortedFrom(S, CHOOSE x \in S : \A y \in S : x <= y)

\* numpy's sum of a short float array: left to right
RECURSIVE FSumFrom(_, _, _)
FSumFrom(v, i, acc) ==
  IF i > Len(v) THEN acc ELSE FSumFrom(v, i + 1, FAdd(acc, v[i]))

\* np.mean of a non-empty list of floats
FMean(v) == FDiv(FSumFrom(v, 1, FZero), FromInt(Len(v)))

(***************************************************************************)
(* Loader (lines 16-63).  The parsed JSON document is a record             *)
(*   [trajectories, swarmState, time], each None when the key is absent.   *)
(* A trajectory is [name, frames], a frame [t, x, z, g] with t and g       *)
(* optional; a swarmState entry is [name, position], a position [x, z, g]. *)
(* Timestamps are counted in units of 0.0001 s, gating values and          *)
(* coordinates are integers.  A track is [name, t, x, z, g] with t and g   *)
(* None or Some(array); drone_tracks is the sequence of tracks in          *)
(* insertion order.                                                        *)
(***************************************************************************)
GArray(g_arr) ==
  IF \E i \in 1..Len(g_arr) : g_arr[i] # None THEN Some(g_arr) ELSE None

\* lines 29-41, for a trajectory with at least one frame
TrajTrack(traj) ==
  LET frames == traj.frames
      t_arr  == [i \in 1..Len(frames) |-> frames[i].t]
      g_arr  == [i \in 1..Len(frames) |-> frames[i].g]
  IN  [name |-> traj.name,
       t |-> IF t_arr[1] # None THEN Some(t_arr) ELSE None,
       x |-> [i \in 1..Len(frames) |-> FromInt(frames[i].x)],
       z |-> [i \in 1..Len(frames) |-> FromInt(frames[i].z)],
       g |-> GArray(g_arr)]

\* the top-level time taken whatever its length
THereAnyLength(top_time, x_arr) == top_time

\* line 52
THere(top_time, x_arr) ==
  IF top_time # None /\ Len(top_time[1]) = Len(x_arr) THEN top_time ELSE None

\* lines 46-58, for an entry with at least one position
SwarmTrack(entry, top_time) ==
  LET pos   == entry.position
      x_arr == [i \in 1..Len(pos) |-> pos[i].x]
      g_arr == [i \in 1..Len(pos) |-> pos[i].g]
  IN  [name |-> entry.name,
       t |-> THere(top_time, x_arr),
       x |-> [i \in 1..Len(pos) |-> FromInt(pos[i].x)],
       z |-> [i \in 1..Len(pos) |-> FromInt(pos[i].z)],
       g |-> GArray(g_arr)]

HasFrames(traj) == traj.frames # <<>>
HasPositions(entry) == entry.position # <<>>

\* lines 26-58 for a document with one of the two keys
LoadTracks(doc) ==
  IF doc.trajectories # None
  THEN LET kept == SelectSeq(doc.trajectories[1], HasFrames)
       IN  [i \in 1..Len(kept) |-> TrajTrack(kept[i])]
  ELSE LET kept == SelectSeq(doc.swarmState[1], HasPositions)
       IN  [i \in 1..Len(kept) |-> SwarmTrack(kept[i], doc.time)]

\* only the unrecognized layout raises
LoadErrorLayoutOnly(doc) ==
  IF doc.trajectories = None /\ doc.swarmState = None
  THEN Some("ValueError: Unrecognized JSON layout")
  ELSE None

\* the exception of lines 59-63, or None
LoadError(doc) ==
  IF doc.trajectories = None /\ doc.swarmState = None
  THEN Some("ValueError: Unrecognized JSON layout")
  ELSE IF LoadTracks(doc) = <<>>
  THEN Some("ValueError: No drone trajectories found")
  ELSE None

(***************************************************************************)
(* Reference polyline (lines 65-70).                                       *)
(***************************************************************************)
\* lines 67-69: the points appended from step i on, after the point (x, z);
\* (nx, nz) is the point of step i
RECURSIVE RefPts(_, _, _)
RefPtsAt(i, nx, nz) == << <<nx, nz>> >> \o RefPts(i + 1, nx, nz)
RefPts(i, x, z) ==
  IF i > Len(REF_STEPS) THEN <<>>
  ELSE RefPtsAt(i, FAdd(x, FromInt(REF_STEPS[i][1])), FAdd(z, FromInt(REF_STEPS[i][2])))

\* line 70
Scaled(pts) ==
  [i \in 1..Len(pts) |-> <<FMul(pts[i][1], REF_SCALE), FMul(pts[i][2], REF_SCALE)>>]

BuildRefPoly == Scaled(<< <<FZero, FZero>> >> \o RefPts(1, FZero, FZero))

(***************************************************************************)
(* Aggregator (lines 92-132).                                              *)
(***************************************************************************)
\* line 92
UseTime(tracks) == \E i \in 1..Len(tracks) : tracks[i].t # None

\* round(float(ti), 3) of a missing timestamp is a NaN: a dictionary key of
\* its own, equal to no key
NanKey == -1

\* round(float(ti), 3), as a count of milliseconds; the timestamps of the
\* model are never halfway between two milliseconds
Round3(ti) == IF ti = None THEN NanKey ELSE (ti[1] + 5) \div 10

\* the gate as a truth test: any value but 0 passes
GateOpenTruthy(d, idx) == d.g = None \/ d.g[1][idx] # Some(0)

\* lines 100 and 123: the sample idx of track d passes the gate
GateOpen(d, idx) == d.g = None \/ d.g[1][idx] = Some(1)

\* a track without timestamps binned by its frame index
TrackSamplesFrameKeyed(d, gated) ==
  LET n   == IF d.t = None \/ Len(d.x) < Len(d.t[1]) THEN Len(d.x) ELSE Len(d.t[1])
      all == [idx \in 1..n |->
                [key |-> IF d.t = None THEN idx ELSE Round3(d.t[1][idx]),
                 p |-> <<d.x[idx], d.z[idx]>>,
                 keep |-> ~gated \/ GateOpen(d, idx)]]
      Kept(e) == e.keep
  IN  SelectSeq(all, Kept)

\* the samples one track appends to the bins, in order, as [key, p]:
\* lines 97-103 when gated, lines 106-110 otherwise
TrackSamples(d, gated) ==
  IF d.t = None THEN <<>>
  ELSE LET n   == IF Len(d.t[1]) < Len(d.x) THEN Len(d.t[1]) ELSE Len(d.x)
           all == [idx \in 1..n |->
                     [key |-> Round3(d.t[1][idx]), p |-> <<d.x[idx], d.z[idx]>>,
                      keep |-> ~gated \/ GateOpen(d, idx)]]
           Kept(e) == e.keep
       IN  SelectSeq(all, Kept)

Placed(tracks, gated) ==
  Concat([i \in 1..Len(tracks) |-> TrackSamples(tracks[i], gated)])

\* the positions of the samples es
Positions(es) == [i \in 1..Len(es) |-> es[i].p]

\* the samples placed under key k
SamplesAt(placed, k) ==
  LET InBin(e) == e.key = k
  IN  SelectSeq(placed, InBin)

\* the dictionary of the samples placed
BinsOf(placed) ==
  [k \in {placed[i].key : i \in 1..Len(placed)} |-> Positions(SamplesAt(placed, k))]

\* lines 104-110: the gated samples first, every sample if there are none
PlacedOrAll(tracks, first) == IF first = <<>> THEN Placed(tracks, FALSE) ELSE first

\* bins after lines 95-110: key -> list of positions in insertion order
BuildBins(tracks) == BinsOf(PlacedOrAll(tracks, Placed(tracks, TRUE)))

\* line 115
MinLen(tracks) ==
  CHOOSE n \in {Len(tracks[i].x) : i \in 1..Len(tracks)} :
    \A i \in 1..Len(tracks) : n <= Len(tracks[i].x)

\* lines 125 and 128: the positions of the tracks use at frame f
FramePtsOf(use, f) == [i \in 1..Len(use) |-> <<use[i].x[f], use[i].z[f]>>]

\* lines 126-127: the tracks act that pass the gate, every track if none does
ActiveOrAll(tracks, act) == IF act = <<>> THEN tracks ELSE act

\* every track at frame f, whatever its gating value
FramePtsUngated(tracks, f) ==
  [i \in 1..Len(tracks) |-> <<tracks[i].x[f], tracks[i].z[f]>>]

\* pts of lines 119-128 for frame f (counted from 1)
FramePts(tracks, f) ==
  LET Open(d) == GateOpen(d, f)
  IN  FramePtsOf(ActiveOrAll(tracks, SelectSeq(tracks, Open)), f)

Xs(pts) == [i \in 1..Len(pts) |-> pts[i][1]]
Zs(pts) == [i \in 1..Len(pts) |-> pts[i][2]]

(***************************************************************************)
(* The run of the script as a state machine: one action per stage, in the  *)
(* order of the file.  A raised exception ends the run.                    *)
(***************************************************************************)
VARIABLES
  pc,            \* the stage to run next, "raised" or "done"
  files,         \* whether the glob of line 16 matches a file
  doc,           \* the JSON document of that file (line 22)
  error,         \* the exception that ended the run, or None
  steps,         \* the stages executed so far, in order
  drone_tracks,  \* line 26
  ref_poly,      \* line 70
  use_time,      \* line 92
  bins,          \* line 95 (timestamp-driven mode)
  times,         \* lines 111 and 116
  centroid_x,    \* lines 112 and 131
  centroid_z,    \* lines 113 and 132
  centroid,      \* line 134
  centroid_err,  \* line 135
  written,       \* the files saved by savefig
  \* calls of the geometry helpers on their own
  gstage, gpt, gpoly, gseg, gdist, gdist_rev

run_vars == <<pc, files, doc, error, steps, drone_tracks, ref_poly, use_time,
              bins, times, centroid_x, centroid_z, centroid, centroid_err, written>>
geom_vars == <<gstage, gpt, gpoly, gseg, gdist, gdist_rev>>
vars == <<run_vars, geom_vars>>

(***************************************************************************)
(* Input documents.  Two drones A and B; frame f of a drone has a fixed    *)
(* position, so a centroid tells which samples went into it.               *)
(***************************************************************************)
MaxFrames == 2

PosX(name, f) == IF name = "A" THEN 3 * f ELSE -9 * f
PosZ(name, f) == IF name = "A" THEN 6 * f ELSE 12 + 3 * f

\* gating values of the n frames of a track: none at all, all 0, all 1, a
\* single 1; drone A also has a value other than 0 and 1, and a missing
\* value, in its last frame
GatePatterns(name, n) ==
  {[f \in 1..n |-> None]}
    \cup {[f \in 1..n |-> Some(v)] : v \in {0, 1}}
    \cup {[f \in 1..n |-> IF f = k THEN Some(1) ELSE Some(0)] : k \in 1..n}
    \cup (IF name = "A"
          THEN {[f \in 1..n |-> IF f = n THEN Some(2) ELSE Some(1)],
                [f \in 1..n |-> IF f = n THEN None ELSE Some(1)]}
          ELSE {})

\* timestamps of the n frames of a track: one per millisecond; 0.4 ms apart
\* (two frames round to one millisecond); one per millisecond, 0.6 ms early
Steady(n) == [f \in 1..n |-> Some(10 * f)]
Dense(n)  == [f \in 1..n |-> Some(10 + 4 * (f - 1))]
Early(n)  == [f \in 1..n |-> Some(10 * f - 6)]
Untimed(n) == [f \in 1..n |-> None]
\* one per millisecond, the last of two or more frames without "t"
Gappy(n) == [f \in 1..n |-> IF f = n /\ n >= 2 THEN None ELSE Some(10 * f)]

TimePatterns(name, n) ==
  IF name = "A" THEN {Untimed(n), Steady(n), Dense(n), Gappy(n)}
  ELSE {Untimed(n), Steady(n), Early(n)}

Trajectories(name) ==
  UNION {{[name |-> name,
           frames |-> [f \in 1..n |->
                         [t |-> tp[f], x |-> PosX(name, f), z |-> PosZ(name, f),
                          g |-> gp[f]]]]
          : gp \in GatePatterns(name, n), tp \in TimePatterns(name, n)}
         : n \in 0..MaxFrames}

SwarmEntries(name) ==
  UNION {{[name |-> name,
           position |-> [f \in 1..n |->
                           [x |-> PosX(name, f), z |-> PosZ(name, f), g |-> gp[f]]]]
          : gp \in GatePatterns(name, n)}
         : n \in 0..MaxFrames}

\* the top-level "time": absent or not a list, or a list of 0..MaxFrames
\* timestamps
TopTimes ==
  {None} \cup {Some(Steady(n)) : n \in 0..MaxFrames}
         \cup {Some(Dense(n)) : n \in 2..MaxFrames}

TrajDocs ==
  {[trajectories |-> Some(<<a, b>>), swarmState |-> None, time |-> None]
   : a \in Trajectories("A"), b \in Trajectories("B")}

SwarmDocs ==
  {[trajectories |-> None, swarmState |-> Some(<<a, b>>), time |-> tt]
   : a \in SwarmEntries("A"), b \in SwarmEntries("B"), tt \in TopTimes}

\* neither key; an empty list under a key; both keys
OtherDocs ==
  {[trajectories |-> None, swarmState |-> None, time |-> tt] : tt \in {None, Some(Steady(1))}}
    \cup {[trajectories |-> Some(<<>>), swarmState |-> None, time |-> None],
          [trajectories |-> None, swarmState |-> Some(<<>>), time |-> None]}
    \cup {[trajectories |-> Some(<<a>>), swarmState |-> Some(<<b>>), time |-> Some(Steady(1))]
          : a \in {[name |-> "A", frames |-> <<>>],
                   [name |-> "A", frames |-> <<[t |-> None, x |-> 3, z |-> 6, g |-> None]>>]},
            b \in {[name |-> "B", position |-> <<[x |-> -9, z |-> 15, g |-> None]>>]}}

Docs == TrajDocs \cup SwarmDocs \cup OtherDocs

Unset == <<>>

Idle ==
  /\ gstage = "idle" /\ gpt = Unset /\ gpoly = Unset
  /\ gseg = Unset /\ gdist = Unset /\ gdist_rev = Unset

Init ==
  /\ pc = "select_input"
  /\ \/ files = TRUE /\ doc \in Docs
     \/ files = FALSE /\ doc \in OtherDocs
  /\ error = None /\ steps = <<>>
  /\ drone_tracks = Unset /\ ref_poly = Unset /\ use_time = Unset
  /\ bins = Unset /\ times = Unset /\ centroid_x = Unset /\ centroid_z = Unset
  /\ centroid = Unset /\ centroid_err = Unset
  /\ written = {}
  /\ Idle

Raise(e) == pc' = "raised" /\ error' = Some(e)

\* lines 16-19
SelectInput ==
  /\ pc = "select_input"
  /\ steps' = Append(steps, "select_input")
  /\ IF files THEN pc' = "load" /\ error' = error
     ELSE Raise("FileNotFoundError")
  /\ UNCHANGED <<files, doc, drone_tracks, ref_poly, use_time, bins, times,
                 centroid_x, centroid_z, centroid, centroid_err, written>>
  /\ UNCHANGED geom_vars

\* lines 21-63
Load ==
  /\ pc = "load"
  /\ steps' = Append(steps, "load")
  /\ IF LoadError(doc) # None
     THEN Raise(LoadError(doc)[1]) /\ drone_tracks' = drone_tracks
     ELSE pc' = "build_ref" /\ error' = error /\ drone_tracks' = LoadTracks(doc)
  /\ UNCHANGED <<files, doc, ref_poly, use_time, bins, times,
                 centroid_x, centroid_z, centroid, centroid_err, written>>
  /\ UNCHANGED geom_vars

\* lines 65-70
BuildRef ==
  /\ pc = "build_ref"
  /\ steps' = Append(steps, "build_ref")
  /\ ref_poly' = BuildRefPoly
  /\ pc' = "aggregate"
  /\ UNCHANGED <<files, doc, error, drone_tracks, use_time, bins, times,
                 centroid_x, centroid_z, centroid, centroid_err, written>>
  /\ UNCHANGED geom_vars

\* lines 111-113, for the bins b and their sorted keys ts
AggregateByTime(b, ts) ==
  /\ bins' = b
  /\ times' = ts
  /\ centroid_x' = [i \in 1..Len(ts) |-> FMean(Xs(b[ts[i]]))]
  /\ centroid_z' = [i \in 1..Len(ts) |-> FMean(Zs(b[ts[i]]))]

\* lines 94-113 for the bins b.  With a NaN among the keys, line 112 looks
\* bins up with a NaN of the times array, which is not the key object and
\* equals no key: KeyError ends the run there.
AggregateTimed(b) ==
  IF NanKey \in DOMAIN b
  THEN /\ Raise("KeyError")
       /\ UNCHANGED <<bins, times, centroid_x, centroid_z>>
  ELSE /\ AggregateByTime(b, Sorted(DOMAIN b))
       /\ pc' = "centroid_error" /\ error' = error

\* lines 114-132
AggregateByFrame(min_len) ==
  /\ bins' = bins
  /\ times' = [f \in 1..min_len |-> f - 1]
  /\ centroid_x' = [f \in 1..min_len |-> FMean(Xs(FramePts(drone_tracks, f)))]
  /\ centroid_z' = [f \in 1..min_len |-> FMean(Zs(FramePts(drone_tracks, f)))]
  /\ pc' = "centroid_error" /\ error' = error

\* lines 92-132
Aggregate ==
  /\ pc = "aggregate"
  /\ steps' = Append(steps, "aggregate")
  /\ use_time' = UseTime(drone_tracks)
  /\ IF UseTime(drone_tracks) THEN AggregateTimed(BuildBins(drone_tracks))
     ELSE AggregateByFrame(MinLen(drone_tracks))
  /\ UNCHANGED <<files, doc, drone_tracks, ref_poly, centroid, centroid_err, written>>
  /\ UNCHANGED geom_vars

\* lines 134-135
CentroidError ==
  /\ pc = "centroid_error"
  /\ steps' = Append(steps, "centroid_error")
  /\ centroid' = [i \in 1..Len(centroid_x) |-> <<centroid_x[i], centroid_z[i]>>]
  /\ centroid_err' = [i \in 1..Len(centroid_x) |->
                        dist_point_to_polyline(<<centroid_x[i], centroid_z[i]>>, ref_poly)]
  /\ pc' = "plot_trajectories"
  /\ UNCHANGED <<files, doc, error, drone_tracks, ref_poly, use_time, bins, times,
                 centroid_x, centroid_z, written>>
  /\ UNCHANGED geom_vars

\* lines 137-149
PlotTrajectories ==
  /\ pc = "plot_trajectories"
  /\ steps' = Append(steps, "plot_trajectories")
  /\ written' = written \cup {OUT_TRAJ_PNG}
  /\ pc' = "plot_error"
  /\ UNCHANGED <<files, doc, error, drone_tracks, ref_poly, use_time, bins, times,
                 centroid_x, centroid_z, centroid, centroid_err>>
  /\ UNCHANGED geom_vars

\* lines 151-157
PlotError ==
  /\ pc = "plot_error"
  /\ steps' = Append(steps, "plot_error")
  /\ written' = written \cup {OUT_ERR_PNG}
  /\ pc' = "done"
  /\ UNCHANGED <<files, doc, error, drone_tracks, ref_poly, use_time, bins, times,
                 centroid_x, centroid_z, centroid, centroid_err>>
  /\ UNCHANGED geom_vars

Next ==
  \/ SelectInput
  \/ Load
  \/ BuildRef
  \/ Aggregate
  \/ CentroidError
  \/ PlotTrajectories
  \/ PlotError

Spec == Init /\ [][Next]_vars

(***************************************************************************)
(* The geometry helpers called on their own: a point of a small grid and   *)
(* a polyline over a few vertices, and the example of the specification.   *)
(***************************************************************************)
GridMax == 2
MaxPolyLen == 3

GridPts == (0..GridMax) \X (0..GridMax)
PolyPts == {<<0, 0>>, <<0, 1>>, <<2, 0>>, <<2, 2>>}

ExamplePt == <<5, 5>>
ExamplePoly == << <<0, 0>>, <<10, 0>>, <<10, 10>> >>

\* the numpy arrays of integer points
AsPt(v) == Pt(v[1], v[2])
AsPoly(vs) == [i \in 1..Len(vs) |-> AsPt(vs[i])]

\* a call of dist_point_to_polyline: the exception it raised, if any, and
\* the value it returned; the body (lines 85-90) has no raise
DistCall(p, poly) == [raised |-> None, value |-> dist_point_to_polyline(p, poly)]

InitGeom ==
  /\ gstage = "input"
  /\ \/ /\ gpt \in GridPts
        /\ gpoly \in UNION {[1..n -> PolyPts] : n \in 0..MaxPolyLen}
     \/ /\ gpt = ExamplePt
        /\ gpoly = ExamplePoly
  /\ gseg = Unset /\ gdist = Unset /\ gdist_rev = Unset
  /\ pc = "idle" /\ files = FALSE /\ doc = Unset /\ error = None /\ steps = <<>>
  /\ drone_tracks = Unset /\ ref_poly = Unset /\ use_time = Unset
  /\ bins = Unset /\ times = Unset /\ centroid_x = Unset /\ centroid_z = Unset
  /\ centroid = Unset /\ centroid_err = Unset
  /\ written = {}

\* closest_point_on_segment on the first segment of the polyline
CallSegment ==
  /\ gstage = "input"
  /\ Len(gpoly) >= 2
  /\ gseg' = closest_point_on_segment(AsPt(gpt), AsPt(gpoly[1]), AsPt(gpoly[2]))
  /\ gstage' = "segment_done"
  /\ UNCHANGED <<gpt, gpoly, gdist, gdist_rev>>
  /\ UNCHANGED run_vars

\* dist_point_to_polyline on the polyline
CallDist ==
  /\ \/ gstage = "segment_done"
     \/ gstage = "input" /\ Len(gpoly) < 2
  /\ gdist' = DistCall(AsPt(gpt), AsPoly(gpoly))
  /\ gstage' = "dist_done"
  /\ UNCHANGED <<gpt, gpoly, gseg, gdist_rev>>
  /\ UNCHANGED run_vars

\* dist_point_to_polyline on the polyline with its vertices reversed
CallDistReversed ==
  /\ gstage = "dist_done"
  /\ gdist_rev' = DistCall(AsPt(gpt), Reverse(AsPoly(gpoly)))
  /\ gstage' = "done"
  /\ UNCHANGED <<gpt, gpoly, gseg, gdist>>
  /\ UNCHANGED run_vars

NextGeom ==
  \/ CallSegment
  \/ CallDist
  \/ CallDistReversed

SpecGeom == InitGeom /\ [][NextGeom]_vars

(***************************************************************************)
(* Properties of the geometry helpers, checked under SpecGeom.             *)
(***************************************************************************)
DistReturned == gstage \in {"dist_done", "done"}
SegmentReturned == gstage \in {"segment_done", "dist_done", "done"} /\ Len(gpoly) >= 2

\* C5: dist_point_to_polyline(p, poly) fails with an "empty polyline" error
\* whenever poly has fewer than 2 vertices, instead of returning a distance.
C5_EmptyPolylineFails ==
  (DistReturned /\ Len(gpoly) < 2) => gdist.raised = Some("empty polyline")

\* C6: for every point p and every polyline with at least 2 vertices the
\* distance is the same for the polyline and for the reversed polyline.
C6_ReversalInvariant ==
  (gstage = "done" /\ Len(gpoly) >= 2) => gdist.value = gdist_rev.value

\* exact integer arithmetic on the integer inputs of a call
IDot(u, v) == u[1] * v[1] + u[2] * v[2]
IVec(a, b) == <<b[1] - a[1], b[2] - a[2]>>

\* the integer points of the segment [a, b]
SegmentPoints(a, b) ==
  {l \in (IMin(a[1], b[1])..IMax(a[1], b[1])) \X (IMin(a[2], b[2])..IMax(a[2], b[2])) :
     (l[1] - a[1]) * (b[2] - a[2]) = (l[2] - a[2]) * (b[1] - a[1])}

FBetween(lo, x, hi) == FLe(FromInt(lo), x) /\ FLe(x, FromInt(hi))

FineBits == 30

FineCoord(ac, bc, k) ==
  LET base == BShl(BFromNat(ac), FineBits)
      num  == IF bc = ac THEN base
              ELSE IF bc > ac THEN BAdd(base, BMulSmall(k, bc - ac))
              ELSE BSub(base, BMulSmall(k, ac - bc))
  IN  IF num = <<>> THEN FZero ELSE FCanon(0, num, -FineBits)

FinePoints(p, a, b) ==
  LET dot == IDot(IVec(a, p), IVec(a, b))
      ab2 == IDot(IVec(a, b), IVec(a, b))
      k   == BDivMod(BShl(BFromNat(dot), FineBits), BFromNat(ab2)).q
  IN  IF 0 < dot /\ dot < ab2
      THEN {<<FineCoord(a[1], b[1], j), FineCoord(a[2], b[2], j)>> : j \in {k, BAdd(k, <<1>>)}}
      ELSE {}

Loaded == pc \in {"build_ref", "aggregate", "centroid_error",
                  "plot_trajectories", "plot_error", "done"}
Aggregated == pc \in {"centroid_error", "plot_trajectories", "plot_error", "done"}
Measured == pc \in {"plot_trajectories", "plot_error", "done"}

Tracks == 1..Len(drone_tracks)
Timed == {i \in Tracks : drone_tracks[i].t # None}

\* a sample is a pair <<track, index>>
SamplesOf(I) == {s \in I \X (1..MaxFrames) : s[2] <= Len(drone_tracks[s[1]].x)}
PosOf(s) == <<drone_tracks[s[1]].x[s[2]], drone_tracks[s[1]].z[s[2]]>>
GateOf(s) == IF drone_tracks[s[1]].g = None THEN None ELSE drone_tracks[s[1]].g[1][s[2]]
HasGating(s) == drone_tracks[s[1]].g # None
\* the samples of timestamped tracks that have a timestamp of their own
Stamped == {s \in SamplesOf(Timed) : drone_tracks[s[1]].t[1][s[2]] # None}
\* the millisecond a timestamp (in 0.0001 s) rounds to; NanKey without one
KeyOf(s) == IF s \notin Stamped THEN NanKey
            ELSE CHOOSE k \in 0..(MaxFrames + 1) :
                   10 * k - 5 <= drone_tracks[s[1]].t[1][s[2]][1]
                   /\ drone_tracks[s[1]].t[1][s[2]][1] < 10 * k + 5

\* the samples that pass the gate, and the samples the bins are built from
Passing(S) == {s \in S : ~HasGating(s) \/ GateOf(s) = Some(1)}
Included == IF Passing(SamplesOf(Timed)) = {} THEN SamplesOf(Timed)
            ELSE Passing(SamplesOf(Timed))

BinPoints(k) == {bins[k][j] : j \in 1..Len(bins[k])}

\* the mean of the positions of the samples S, summed in track order
RECURSIVE InOrder(_)
InOrder(S) ==
  IF S = {} THEN <<>>
  ELSE LET s == CHOOSE m \in S : \A o \in S :
                  m[1] < o[1] \/ (m[1] = o[1] /\ m[2] <= o[2])
       IN  <<PosOf(s)>> \o InOrder(S \ {s})
MeanOf(S) == <<FMean(Xs(InOrder(S))), FMean(Zs(InOrder(S)))>>

\* C8: in timestamp-driven mode a sample of a timestamped track with gating
\* data is placed in its bin only if its gating value is exactly 1, samples
\* of timestamped tracks without gating data are always placed, and the bins
\* are rebuilt from all samples of all timestamped tracks, ignoring gating,
\* if and only if gating left no bin at all.
C8_GatedBins ==
  (Aggregated /\ use_time) =>
    /\ DOMAIN bins = {KeyOf(s) : s \in Included}
    /\ \A k \in DOMAIN bins :
         /\ BinPoints(k) = {PosOf(s) : s \in {i \in Included : KeyOf(i) = k}}
         /\ Len(bins[k]) = Cardinality({i \in Included : KeyOf(i) = k})
    /\ (Passing(SamplesOf(Timed)) # {}) =>
         \A s \in SamplesOf(Timed) :
           (\E k \in DOMAIN bins : PosOf(s) \in BinPoints(k))
             <=> (~HasGating(s) \/ GateOf(s) = Some(1))
    /\ (Passing(SamplesOf(Timed)) = {}) =>
         \A s \in SamplesOf(Timed) : PosOf(s) \in BinPoints(KeyOf(s))

\* gating excluded every sample and the bins were rebuilt from all of them
C8_Witness ==
  /\ Aggregated /\ use_time
  /\ Passing(SamplesOf(Timed)) = {}
  /\ Cardinality(SamplesOf(Timed)) >= 3
  /\ \E s \in SamplesOf(Timed) : GateOf(s) = Some(0) /\ PosOf(s) \in BinPoints(KeyOf(s))

\* C10: in timestamp-driven mode a track without timestamps contributes no
\* sample to any bin, in the gated pass and in the ungated pass alike.
C10_UntimedTracksIgnored ==
  (Aggregated /\ use_time) =>
    \A s \in SamplesOf(Tracks \ Timed) : \A k \in DOMAIN bins : PosOf(s) \notin BinPoints(k)

\* a track without timestamps and without gating data, next to a timestamped
\* track whose samples the gate excluded
C10_Witness ==
  /\ Aggregated /\ use_time
  /\ \E i \in Tracks \ Timed : drone_tracks[i].g = None
  /\ Passing(SamplesOf(Timed)) = {}

\* the index of time value k in times, or 0
IndexOf(k) == IF \E i \in 1..Len(times) : times[i] = k
              THEN CHOOSE i \in 1..Len(times) : times[i] = k ELSE 0

ShortestLen == CHOOSE n \in 0..MaxFrames :
                 /\ \A i \in Tracks : n <= Len(drone_tracks[i].x)
                 /\ \E i \in Tracks : n = Len(drone_tracks[i].x)

AllGatedZero(S) == \A s \in S : GateOf(s) = Some(0)

\* C1: in both aggregation modes, for every bin (rounded timestamp or frame
\* index) in which every sample of every drone has gating value 0, a
\* centroid sample is emitted for that bin and it is the ungated mean of all
\* samples of the bin, even when other bins hold samples gated 1.
C1_ZeroGatedBinKept ==
  Aggregated =>
    IF use_time
    THEN \A k \in {KeyOf(s) : s \in Stamped} :
           LET S == {s \in Stamped : KeyOf(s) = k}
           IN  AllGatedZero(S) =>
                 /\ IndexOf(k) # 0
                 /\ <<centroid_x[IndexOf(k)], centroid_z[IndexOf(k)]>> = MeanOf(S)
    ELSE \A f \in 1..ShortestLen :
           LET S == {s \in SamplesOf(Tracks) : s[2] = f}
           IN  AllGatedZero(S) =>
                 /\ Len(centroid_x) >= f
                 /\ <<centroid_x[f], centroid_z[f]>> = MeanOf(S)

\* C1 restricted to frame-index-driven mode
C1_FrameModeOnly ==
  (Aggregated /\ ~use_time) => C1_ZeroGatedBinKept

\* the tracks active at frame f: no gating data, or gating value 1 at f
ActiveAt(f) == Passing({s \in SamplesOf(Tracks) : s[2] = f})

\* C2 as stated: in frame-index-driven mode there are as many centroid
\* samples as the shortest track has frames, and the centroid of frame f is
\* the mean of the positions at f of exactly the tracks that have no gating
\* data or gating value 1 at f.
C2_AsStated ==
  (Aggregated /\ ~use_time) =>
    /\ Len(centroid_x) = ShortestLen /\ Len(centroid_z) = ShortestLen
    /\ \A f \in 1..ShortestLen :
         /\ ActiveAt(f) # {}
         /\ <<centroid_x[f], centroid_z[f]>> = MeanOf(ActiveAt(f))

\* C2 amended: ... of exactly those tracks, or of all tracks when no track
\* has gating value 1 or lacks gating data at f.
C2_FrameCentroid ==
  (Aggregated /\ ~use_time) =>
    /\ Len(centroid_x) = ShortestLen /\ Len(centroid_z) = ShortestLen
    /\ \A f \in 1..ShortestLen :
         <<centroid_x[f], centroid_z[f]>> =
           MeanOf(IF ActiveAt(f) = {} THEN {s \in SamplesOf(Tracks) : s[2] = f}
                  ELSE ActiveAt(f))

\* two drones, two frames, A gated 1 at frame 0 only and B at frame 1 only:
\* the centroid is A's position at frame 0 and B's position at frame 1
C2_Witness ==
  /\ pc = "done" /\ ~use_time /\ Len(drone_tracks) = 2
  /\ drone_tracks[1].g = Some(<<Some(1), Some(0)>>)
  /\ drone_tracks[2].g = Some(<<Some(0), Some(1)>>)
  /\ centroid = << PosOf(<<1, 1>>), PosOf(<<2, 2>>) >>

\* the swarmState entry a track was loaded from
EntryOf(i) == CHOOSE e \in {doc.swarmState[1][j] : j \in 1..Len(doc.swarmState[1])} :
                e.name = drone_tracks[i].name

\* C3: in the swarmState layout a track carries timestamps if and only if
\* the top-level time is a list as long as the drone's position list; and
\* aggregation is timestamp-driven if and only if some loaded track carries
\* timestamps.
C3_SwarmTimestamps ==
  /\ (Loaded /\ doc.trajectories = None) =>
       \A i \in Tracks :
         /\ drone_tracks[i].t # None
              <=> (doc.time # None /\ Len(doc.time[1]) = Len(EntryOf(i).position))
         /\ drone_tracks[i].t # None => drone_tracks[i].t = doc.time
  /\ Aggregated => (use_time <=> Timed # {})

\* the time list fits one drone and not the other: timestamp-driven
C3_Witness ==
  /\ Aggregated /\ doc.trajectories = None /\ use_time
  /\ Len(drone_tracks) = 2 /\ Cardinality(Timed) = 1

NoUsableTrack ==
  IF doc.trajectories # None
  THEN \A j \in 1..Len(doc.trajectories[1]) : Len(doc.trajectories[1][j].frames) = 0
  ELSE doc.swarmState # None /\
       \A j \in 1..Len(doc.swarmState[1]) : Len(doc.swarmState[1][j].position) = 0

InSteps(name) == \E i \in 1..Len(steps) : steps[i] = name

\* C4: the run aborts with an error and writes neither PNG when no file
\* matches the glob, when the document has neither key, and when the layout
\* yields no track with a frame; in a run that reached one of these errors
\* aggregation and rendering are never executed.
C4_AbortsWithoutOutput ==
  /\ (~files /\ pc # "select_input") =>
       pc = "raised" /\ error = Some("FileNotFoundError")
  /\ (files /\ doc.trajectories = None /\ doc.swarmState = None
        /\ pc \notin {"select_input", "load"}) =>
       pc = "raised" /\ error = Some("ValueError: Unrecognized JSON layout")
  /\ (files /\ NoUsableTrack /\ pc \notin {"select_input", "load"}) =>
       pc = "raised" /\ error = Some("ValueError: No drone trajectories found")
  /\ pc = "raised" <=> error # None
  /\ error \in {Some("FileNotFoundError"),
                Some("ValueError: Unrecognized JSON layout"),
                Some("ValueError: No drone trajectories found")} =>
       /\ written = {}
       /\ ~InSteps("aggregate") /\ ~InSteps("centroid_error")
       /\ ~InSteps("plot_trajectories") /\ ~InSteps("plot_error")
       /\ times = Unset /\ centroid = Unset /\ centroid_err = Unset

\* both keys present, the trajectories list has no frame: the run aborted
\* although swarmState holds a track
C4_Witness ==
  /\ pc = "raised" /\ error = Some("ValueError: No drone trajectories found")
  /\ doc.trajectories # None /\ doc.swarmState # None /\ written = {}

StrictlyAscending(v) == \A i \in 1..(Len(v) - 1) : v[i] < v[i + 1]

\* C7: after aggregation the time/frame values, the centroid pairs and the
\* distances have the same length and entry i of each belongs to the same
\* bin or frame; in timestamp-driven mode the time values are strictly
\* ascending with one entry per rounded timestamp that received a sample.
C7_AlignedOutputs ==
  /\ Aggregated => Len(times) = Len(centroid_x) /\ Len(times) = Len(centroid_z)
  /\ (Aggregated /\ use_time) =>
       /\ StrictlyAscending(times)
       /\ {times[i] : i \in 1..Len(times)} = {KeyOf(s) : s \in Included}
       /\ \A i \in 1..Len(times) :
            <<centroid_x[i], centroid_z[i]>> =
              MeanOf({s \in Included : KeyOf(s) = times[i]})
  /\ (Aggregated /\ ~use_time) =>
       /\ \A i \in 1..Len(times) : times[i] = i - 1
       /\ Len(times) = ShortestLen
  /\ Measured =>
       /\ Len(centroid) = Len(times) /\ Len(centroid_err) = Len(times)
       /\ \A i \in 1..Len(times) : centroid[i] = <<centroid_x[i], centroid_z[i]>>
  /\ pc = "plot_trajectories" =>
       \A i \in 1..Len(times) :
         centroid_err[i] = dist_point_to_polyline(centroid[i], ref_poly)

\* three bins, the earliest one filled last
C7_Witness ==
  /\ pc = "done" /\ use_time /\ Len(times) = 3 /\ Len(centroid_err) = 3
  /\ Len(drone_tracks) = 2
  /\ drone_tracks[1].t = Some(Steady(2)) /\ drone_tracks[2].t = Some(Early(2))

====
